---- MODULE Spec2Model ----
(***************************************************************************)
(* TextCase: change_case.py.                                               *)
(*                                                                         *)
(* convert_case(filename, char_case) streams a text file line by line      *)
(* through a case transform into a NamedTemporaryFile and then copies the  *)
(* temporary file over the original with shutil.copy.  to_sentence_case    *)
(* is the per-line sentence-case transform with a carried flag.            *)
(*                                                                         *)
(* Text is a sequence of characters, each a string naming one code point.  *)
(* A file is its content as a reader of UTF-8 sees it: each complete       *)
(* character is that character, and a byte that is not part of one stands  *)
(* for itself.                                                             *)
(***************************************************************************)
EXTENDS Integers, Sequences, FiniteSets, TLC

(***************************************************************************)
(* Bounds of the model.                                                    *)
(***************************************************************************)
\* every file content up to this length (characters) is tried
MaxFileLen == 3
\* longest line body (characters before the line terminator) handed to
\* to_sentence_case by the pure-function harness
MaxLineLen == 5
\* number of times the caller runs convert_case on the same file
MaxCalls == 2
\* most bytes one write of the copy loop inside shutil.copy moves
CopyBufSize == 2

(***************************************************************************)
(* Characters.                                                             *)
(***************************************************************************)
NL == "\n"
InvalidByte == "0xFF"
\* LATIN CAPITAL LETTER I WITH DOT ABOVE: its lower case is two code points,
\* i followed by COMBINING DOT ABOVE
CapIDot == "U+0130"
CombDot == "U+0307"
TextChars == {"a", "A", ".", " ", NL, CapIDot}
BodyChars == {"a", "A", ".", " ", CapIDot}

\* the values of char_case a caller may pass: 'u', 'l', 't', 's', the empty
\* string, 'ul' and 'x'
ModeValues == {<<"u">>, <<"l">>, <<"t">>, <<"s">>, <<>>, <<"u", "l">>, <<"x">>}

SeqsUpTo(S, n) == UNION {[1..k -> S] : k \in 0..n}

\* file contents that decode as UTF-8
TextFiles == SeqsUpTo(TextChars, MaxFileLen)
\* file contents holding a byte sequence that is not UTF-8
BinaryFiles ==
  {<<InvalidByte>>, <<"a", NL, InvalidByte>>, <<"a", NL, "0xC4">>,
   <<"a", NL, "a", "0xC4">>}

\* longer files: three lines of which the first and the last end a sentence
\* and the second is blank; a line the locale ISO-8859-9 can encode followed
\* by one whose title case it cannot; one line of two sentences
LongFiles ==
  {<<".", NL, NL, ".">>, <<CapIDot, NL, "a", CapIDot>>,
   <<"a", ".", " ", "a", NL>>}

\* lines as iteration over a text file yields them: a body and, except
\* possibly for the last line of the file, one terminator; never empty
FileLines ==
  {b \o <<NL>> : b \in SeqsUpTo(BodyChars, MaxLineLen)}
    \cup (SeqsUpTo(BodyChars, MaxLineLen) \ {<<>>})

(***************************************************************************)
(* The str methods the program calls.                                      *)
(***************************************************************************)
\* the full case mappings of one character: each yields a string, which may
\* be longer than one character
char_upper(c) ==
  CASE c = "a" -> <<"A">>
    [] c = "i" -> <<"I">>
    [] OTHER -> <<c>>

char_lower(c) ==
  CASE c = "A" -> <<"a">>
    [] c = "I" -> <<"i">>
    [] c = CapIDot -> <<"i", CombDot>>
    [] OTHER -> <<c>>

char_title(c) ==
  CASE c = "a" -> <<"A">>
    [] c = "i" -> <<"I">>
    [] OTHER -> <<c>>

\* the combining dot is not a cased character
char_is_cased(c) == c \in {"a", "A", "i", "I", CapIDot}
char_is_space(c) == c \in {" ", NL}

\* the strings of a sequence, one after the other
RECURSIVE concat(_)
concat(parts) ==
  IF parts = <<>> THEN <<>> ELSE Head(parts) \o concat(Tail(parts))

str_upper(s) == concat([i \in DOMAIN s |-> char_upper(s[i])])

str_lower(s) == concat([i \in DOMAIN s |-> char_lower(s[i])])

\* str.title: each character of the INPUT is lower-cased when the input
\* character before it is cased and title-cased when it is not
str_title(s) ==
  concat([i \in DOMAIN s |->
            IF i > 1 /\ char_is_cased(s[i - 1])
              THEN char_lower(s[i])
              ELSE char_title(s[i])])

\* str.capitalize: first character title-cased, the rest lower-cased
str_capitalize(s) ==
  concat([i \in DOMAIN s |->
            IF i = 1 THEN char_title(s[i]) ELSE char_lower(s[i])])

\* str.strip(): whitespace removed at both ends
str_strip(s) ==
  LET keep == {i \in DOMAIN s : ~char_is_space(s[i])}
  IN IF keep = {} THEN <<>>
     ELSE LET lo == CHOOSE i \in keep : \A j \in keep : i <= j
              hi == CHOOSE i \in keep : \A j \in keep : j <= i
          IN SubSeq(s, lo, hi)

\* str.split(sep): leftmost non-overlapping occurrences of sep
RECURSIVE str_split(_, _)
str_split(s, sep) ==
  LET hits == {i \in 1..(Len(s) - Len(sep) + 1) :
                 SubSeq(s, i, i + Len(sep) - 1) = sep}
  IN IF hits = {} THEN <<s>>
     ELSE LET i == CHOOSE h \in hits : \A g \in hits : h <= g
          IN <<SubSeq(s, 1, i - 1)>>
               \o str_split(SubSeq(s, i + Len(sep), Len(s)), sep)

\* sep.join(parts)
RECURSIVE str_join(_, _)
str_join(sep, parts) ==
  IF Len(parts) = 0 THEN <<>>
  ELSE IF Len(parts) = 1 THEN parts[1]
  ELSE parts[1] \o sep \o str_join(sep, Tail(parts))

\* iteration over a file opened in text mode: the content cut after each
\* line terminator, terminators kept
RECURSIVE readlines(_)
readlines(content) ==
  LET ends == {i \in DOMAIN content : content[i] = NL}
  IN IF content = <<>> THEN <<>>
     ELSE IF ends = {} THEN <<content>>
     ELSE LET e == CHOOSE i \in ends : \A j \in ends : i <= j
          IN <<SubSeq(content, 1, e)>>
               \o readlines(SubSeq(content, e + 1, Len(content)))

\* encodings the locale of the process may have; the temporary file is
\* opened without encoding= and is written in the locale's encoding
Locales == {"UTF-8", "ISO-8859-9", "ASCII"}

\* the bytes of the two-byte characters in UTF-8
LeadCapIDot == "0xC4"
TailCapIDot == "0xB0"
LeadCombDot == "0xCC"
TailCombDot == "0x87"
\* the byte of U+0130 in ISO-8859-9
LatinCapIDot == "0xDD"

\* the locale's encoding has the character
char_encodable(loc, c) ==
  \/ loc = "UTF-8"
  \/ c \notin {CapIDot, CombDot}
  \/ loc = "ISO-8859-9" /\ c = CapIDot

\* a write of the text to the temporary file encodes it; it raises
\* UnicodeEncodeError when this is false
locale_can_encode(loc, text) ==
  \A i \in DOMAIN text : char_encodable(loc, text[i])

\* the bytes of one character the locale's encoding has; every other
\* character here is one byte, the same in the three encodings
encode_char(loc, c) ==
  CASE loc = "UTF-8" /\ c = CapIDot -> <<LeadCapIDot, TailCapIDot>>
    [] loc = "UTF-8" /\ c = CombDot -> <<LeadCombDot, TailCombDot>>
    [] loc = "ISO-8859-9" /\ c = CapIDot -> <<LatinCapIDot>>
    [] OTHER -> <<c>>

\* the bytes of the temporary file that holds the text
encode(loc, text) == concat([i \in DOMAIN text |-> encode_char(loc, text[i])])

\* a byte string as file content: each complete UTF-8 character is that
\* character, a byte that completes none stays a byte
RECURSIVE decode(_)
decode(bytes) ==
  IF bytes = <<>> THEN <<>>
  ELSE IF Len(bytes) >= 2 /\ SubSeq(bytes, 1, 2) = <<LeadCapIDot, TailCapIDot>>
    THEN <<CapIDot>> \o decode(SubSeq(bytes, 3, Len(bytes)))
  ELSE IF Len(bytes) >= 2 /\ SubSeq(bytes, 1, 2) = <<LeadCombDot, TailCombDot>>
    THEN <<CombDot>> \o decode(SubSeq(bytes, 3, Len(bytes)))
  ELSE <<Head(bytes)>> \o decode(Tail(bytes))

\* bytes that start a two-byte UTF-8 character
LeadBytes == {LeadCapIDot, LeadCombDot, LatinCapIDot}

\* reading the content as UTF-8: the number of lines the iteration yields
\* before it raises UnicodeDecodeError, -1 when it does not raise.  The text
\* layer decodes a chunk at a time and the files here fit the first chunk.
\* A byte that cannot stand where it is (an invalid byte, a continuation
\* byte on its own, a lead byte followed by anything else) fails the first
\* read.  A lead byte at the very end of the file is held back as an
\* incomplete character: the lines that end before it are yielded, and the
\* read that reaches the end of the file raises.
decode_error_line(content) ==
  IF \E i \in DOMAIN content :
       \/ content[i] \in {InvalidByte, TailCapIDot, TailCombDot}
       \/ content[i] \in LeadBytes /\ i < Len(content)
    THEN 0
  ELSE IF content # <<>> /\ content[Len(content)] \in LeadBytes
    THEN Len(readlines(content)) - 1
  ELSE -1

\* the content decodes as UTF-8
decodable(content) == decode_error_line(content) = -1

(***************************************************************************)
(* to_sentence_case(txt, continue_sentence) -> (str, bool)                 *)
(***************************************************************************)
\* mutant of to_sentence_case: the returned flag follows the carry-in
to_sentence_case_flag_mut(txt, continue_sentence) ==
  LET stripped == str_strip(txt)
      completed_sentence ==
        IF Len(stripped) = 0 THEN continue_sentence
        ELSE stripped[Len(stripped)] = "."
      segments == str_split(txt, <<".", " ">>)
      sentences ==
        [i \in DOMAIN segments |->
           IF continue_sentence THEN str_lower(segments[i])
           ELSE str_capitalize(segments[i])]
  IN <<str_strip(str_join(<<".", " ">>, sentences)) \o <<NL>>,
       completed_sentence>>

to_sentence_case(txt, continue_sentence) ==
  LET stripped == str_strip(txt)
      \* txt.strip()[-1] == '.', IndexError on the empty string swallowed
      completed_sentence ==
        IF Len(stripped) = 0 THEN FALSE
        ELSE stripped[Len(stripped)] = "."
      segments == str_split(txt, <<".", " ">>)
      \* continue_sentence is read, never assigned, inside the loop
      sentences ==
        [i \in DOMAIN segments |->
           IF continue_sentence THEN str_lower(segments[i])
           ELSE str_capitalize(segments[i])]
  IN <<str_strip(str_join(<<".", " ">>, sentences)) \o <<NL>>,
       completed_sentence>>

(***************************************************************************)
(* convert_case: the mode check and the methods table.                     *)
(***************************************************************************)
\* x in s on str operands: x occurs in s as a substring
is_substring(x, s) ==
  \E i \in 1..(Len(s) + 1) :
    /\ i + Len(x) - 1 <= Len(s)
    /\ SubSeq(s, i, i + Len(x) - 1) = x

\* assert char_case in 'ults'
mode_accepted(mode) == is_substring(mode, <<"u", "l", "t", "s">>)

\* keys of the dict methods
method_keys == {<<"u">>, <<"l">>, <<"t">>}

\* methods[char_case](line)
methods(mode, line) ==
  CASE mode = <<"u">> -> str_upper(line)
    [] mode = <<"l">> -> str_lower(line)
    [] mode = <<"t">> -> str_title(line)

\* exception classes that are OSError or a subclass of it
is_os_error(exc) ==
  exc \in {"OSError", "PermissionError", "FileNotFoundError"}

(***************************************************************************)
(* State.                                                                  *)
(***************************************************************************)
VARIABLES
  exists,          \* the path filename names a file
  target,          \* content of the file at filename
  char_case,       \* argument of convert_case
  locale,          \* encoding of the locale the process runs under
  pc,              \* position of the running call
  temp,            \* content of the NamedTemporaryFile
  temp_exists,     \* the temporary file is on disk
  temp_open,       \* the handle temp_file is open
  file_open,       \* the source handle `file` is open
  pos,             \* lines of the source consumed by the for loop
  is_mid_sentence, \* local of convert_case
  flushed,         \* temp_file.flush() has returned
  copied,          \* bytes shutil.copy has written to the target
  printed,         \* messages printed by the running call, in order
  raised,          \* exception that left convert_case
  before,          \* target content when the running call started
  results,         \* how each finished call ended
  accessed,        \* the running call has tried to open a file
  commits,         \* times the running call entered shutil.copy
  faulted,         \* statement at which the running call raised
  exit_fault,      \* step of leaving the outer with block that raised
  target_perm,     \* whose permission bits the file at filename has
  sc_calls         \* calls of to_sentence_case: arguments and results

vars == <<exists, target, char_case, locale, pc, temp, temp_exists, temp_open,
          file_open, pos, is_mid_sentence, flushed, copied, printed, raised,
          before, results, accessed, commits, faulted, exit_fault,
          target_perm, sc_calls>>

fsvars == <<exists, target, target_perm>>
histvars == <<before, results>>

Init ==
  /\ \/ exists = TRUE /\ target \in TextFiles \cup LongFiles \cup BinaryFiles
     \/ exists = FALSE /\ target = <<>>
  /\ char_case \in ModeValues
  /\ locale \in Locales
  /\ pc = "call"
  /\ temp = <<>>
  /\ temp_exists = FALSE
  /\ temp_open = FALSE
  /\ file_open = FALSE
  /\ pos = 0
  /\ is_mid_sentence = FALSE
  /\ flushed = FALSE
  /\ copied = 0
  /\ printed = <<>>
  /\ raised = "none"
  /\ before = target
  /\ results = <<>>
  /\ accessed = FALSE
  /\ commits = 0
  /\ faulted = "none"
  /\ exit_fault = "none"
  /\ target_perm = "original"
  /\ sc_calls = <<>>

\* how the running call ended
outcome ==
  IF raised # "none" THEN "uncaught"
  ELSE IF printed # <<>> THEN "reported"
  ELSE "ok"

\* return of convert_case, normal or by an exception leaving it, after the
\* messages msgs were printed
Return(msgs, exc) ==
  /\ pc' = "returned"
  /\ printed' = msgs
  /\ raised' = exc
  /\ results' = Append(results,
                       IF exc # "none" THEN "uncaught"
                       ELSE IF msgs # <<>> THEN "reported" ELSE "ok")
  /\ UNCHANGED before

\* the except clauses of the outer try for the exception exc that leaves
\* the outer with block ("none": the block was left normally); msgs are the
\* messages printed before
Except(exc, msgs) ==
  IF exc = "none"
    THEN Return(msgs, "none")
  ELSE IF exc = "PermissionError"
    THEN Return(Append(msgs, "File is not writeable"), "none")
  ELSE IF is_os_error(exc)
    THEN Return(Append(msgs, "Error"), "none")
  ELSE Return(msgs, exc)

\* the outer with block is left, normally or with the exception exc in
\* flight: the temporary file is closed and then, delete=True, removed.
\* Either step can raise, and what it raises replaces exc and meets the
\* except clauses of the outer try.  When the close raises, the removal is
\* left to the finalizer of temp_file, which runs as the call returns; when
\* the removal raises, the file stays on disk and is not removed later.
\* Nothing is closed or removed when the temporary file was never opened.
ExitOuter(exc, msgs) ==
  /\ temp_open' = FALSE
  /\ \/ /\ temp_exists' = FALSE
        /\ temp' = <<>>
        /\ exit_fault' = "none"
        /\ Except(exc, msgs)
     \/ /\ temp_open
        /\ temp_exists' = FALSE
        /\ temp' = <<>>
        /\ exit_fault' = "close_temp"
        /\ Except("OSError", msgs)
     \/ /\ temp_open
        /\ UNCHANGED <<temp_exists, temp>>
        /\ exit_fault' = "unlink"
        /\ \E exc2 \in {"PermissionError", "OSError"} : Except(exc2, msgs)

\* an exception raised inside the outer try: the inner with block, when
\* entered, closes the source; a PermissionError of shutil.copy is caught
\* and reported by the inner try, and the outer with block is then left
\* normally; every other exception leaves the outer with block
Unwind(exc, where, in_copy) ==
  /\ file_open' = FALSE
  /\ faulted' = where
  /\ IF in_copy /\ exc = "PermissionError"
       THEN ExitOuter("none", <<"is not writeable">>)
       ELSE ExitOuter(exc, <<>>)

(***************************************************************************)
(* convert_case, statement by statement.                                   *)
(***************************************************************************)
\* assert char_case in 'ults' / except AssertionError: print, return
CheckMode ==
  /\ pc = "call"
  /\ IF mode_accepted(char_case)
       THEN /\ pc' = "open_temp"
            /\ UNCHANGED <<printed, raised, histvars>>
       ELSE Return(<<"Unsupported char_case option">>, "none")
  /\ UNCHANGED <<fsvars, char_case, locale, temp, temp_exists, temp_open,
                 file_open, pos, is_mid_sentence, flushed, copied, accessed,
                 commits, faulted, exit_fault, sc_calls>>

\* with tempfile.NamedTemporaryFile(mode='w+', delete=True) as temp_file
OpenTemp ==
  /\ pc = "open_temp"
  /\ accessed' = TRUE
  /\ \/ /\ temp_exists' = TRUE
        /\ temp_open' = TRUE
        /\ temp' = <<>>
        /\ pc' = "open_src"
        /\ UNCHANGED <<file_open, faulted, exit_fault, printed, raised,
                       histvars>>
     \/ \E exc \in {"FileNotFoundError", "PermissionError"} :
          Unwind(exc, "open_temp", FALSE)
  /\ UNCHANGED <<fsvars, char_case, locale, pos, is_mid_sentence, flushed,
                 copied, commits, sc_calls>>

\* with open(filename, 'r', encoding='utf-8') as file; is_mid_sentence = False
OpenSource ==
  /\ pc = "open_src"
  /\ \/ /\ exists
        /\ file_open' = TRUE
        /\ is_mid_sentence' = FALSE
        /\ pos' = 0
        /\ pc' = "loop"
        /\ UNCHANGED <<temp, temp_exists, temp_open, faulted, exit_fault,
                       printed, raised, histvars>>
     \/ /\ exists
        /\ \E exc \in {"PermissionError", "OSError"} :
             Unwind(exc, "open_src", FALSE)
        /\ UNCHANGED <<pos, is_mid_sentence>>
     \/ /\ ~exists
        /\ \E exc \in {"FileNotFoundError", "PermissionError"} :
             Unwind(exc, "open_src", FALSE)
        /\ UNCHANGED <<pos, is_mid_sentence>>
  /\ UNCHANGED <<fsvars, char_case, locale, flushed, copied, accessed, commits,
                 sc_calls>>

\* one pass of the for loop: read the next line, transform it, write it to
\* the temporary file.  The read comes before the decoding, and it can fail
\* whatever the file holds; content that does not decode raises at the read
\* decode_error_line gives.  In mode 's' the write comes after
\* to_sentence_case has returned and both its results are assigned.  The
\* write encodes with the locale's encoding and raises when that has not
\* every character of the text; the encoded bytes are then written, which
\* can fail as any write.
LoopBody ==
  /\ pc = "loop"
  /\ pos < Len(readlines(target))
  /\ LET line == readlines(target)[pos + 1]
         reads == decode_error_line(target) # pos
     IN \/ /\ Unwind("OSError", "read", FALSE)
           /\ UNCHANGED <<pos, is_mid_sentence, sc_calls>>
        \/ /\ ~reads
           /\ Unwind("UnicodeDecodeError", "read", FALSE)
           /\ UNCHANGED <<pos, is_mid_sentence, sc_calls>>
        \/ /\ reads
           /\ char_case = <<"s">>
           /\ LET r == to_sentence_case(line, is_mid_sentence)
              IN /\ is_mid_sentence' = r[2]
                 /\ sc_calls' = Append(sc_calls,
                      [txt |-> line, continue_sentence |-> is_mid_sentence,
                       out |-> r[1], flag |-> r[2]])
                 /\ \/ /\ locale_can_encode(locale, r[1])
                       /\ temp' = temp \o r[1]
                       /\ pos' = pos + 1
                       /\ UNCHANGED <<pc, temp_exists, temp_open, file_open,
                                      faulted, exit_fault, printed, raised,
                                      histvars>>
                    \/ /\ locale_can_encode(locale, r[1])
                       /\ Unwind("OSError", "write", FALSE)
                       /\ UNCHANGED pos
                    \/ /\ ~locale_can_encode(locale, r[1])
                       /\ Unwind("UnicodeEncodeError", "write", FALSE)
                       /\ UNCHANGED pos
        \/ /\ reads
           /\ char_case # <<"s">>
           /\ char_case \in method_keys
           /\ \/ /\ locale_can_encode(locale, methods(char_case, line))
                 /\ temp' = temp \o methods(char_case, line)
                 /\ pos' = pos + 1
                 /\ UNCHANGED <<pc, temp_exists, temp_open, file_open,
                                faulted, exit_fault, printed, raised,
                                histvars>>
              \/ /\ locale_can_encode(locale, methods(char_case, line))
                 /\ Unwind("OSError", "write", FALSE)
                 /\ UNCHANGED pos
              \/ /\ ~locale_can_encode(locale, methods(char_case, line))
                 /\ Unwind("UnicodeEncodeError", "write", FALSE)
                 /\ UNCHANGED pos
           /\ UNCHANGED <<is_mid_sentence, sc_calls>>
        \/ /\ reads
           /\ char_case # <<"s">>
           /\ char_case \notin method_keys
           /\ Unwind("KeyError", "transform", FALSE)
           /\ UNCHANGED <<pos, is_mid_sentence, sc_calls>>
  /\ UNCHANGED <<fsvars, char_case, locale, flushed, copied, accessed, commits>>

\* the loop is exhausted: the read that finds the end of the file, then
\* temp_file.flush()
Flush ==
  /\ pc = "loop"
  /\ pos = Len(readlines(target))
  /\ \/ /\ flushed' = TRUE
        /\ pc' = "close_src"
        /\ UNCHANGED <<temp, temp_exists, temp_open, file_open, faulted,
                       exit_fault, printed, raised, histvars>>
     \/ /\ \E where \in {"read", "flush"} : Unwind("OSError", where, FALSE)
        /\ UNCHANGED flushed
  /\ UNCHANGED <<fsvars, char_case, locale, pos, is_mid_sentence, copied,
                 accessed, commits, sc_calls>>

\* mutant of CloseSource: the copy runs inside the inner with block, while
\* the source is still open
CloseSourceLate ==
  /\ pc = "close_src"
  /\ pc' = "copy"
  /\ UNCHANGED <<fsvars, char_case, locale, temp, temp_exists, temp_open,
                 file_open, pos, is_mid_sentence, flushed, copied, printed,
                 raised, histvars, accessed, commits, faulted, exit_fault,
                 sc_calls>>

\* the inner with block exits: the source is closed; a close that raises
\* leaves the outer with block as well, and the copy is not reached
CloseSource ==
  /\ pc = "close_src"
  /\ \/ /\ file_open' = FALSE
        /\ pc' = "copy"
        /\ UNCHANGED <<temp, temp_exists, temp_open, faulted, exit_fault,
                       printed, raised, histvars>>
     \/ Unwind("OSError", "close_src", FALSE)
  /\ UNCHANGED <<fsvars, char_case, locale, pos, is_mid_sentence, flushed,
                 copied, accessed, commits, sc_calls>>

\* shutil.copy(temp_file.name, filename), first step: the temporary file is
\* opened by name for reading and the target for writing, which empties it
\* and keeps its permission bits; when either open fails the target is as
\* it was
CopyOpen ==
  /\ pc = "copy"
  /\ commits' = commits + 1
  /\ \/ /\ target' = <<>>
        /\ copied' = 0
        /\ pc' = "copying"
        /\ UNCHANGED <<exists, target_perm, temp, temp_exists, temp_open,
                       file_open, faulted, exit_fault, printed, raised,
                       histvars>>
     \/ /\ \E exc \in {"PermissionError", "OSError"} :
             Unwind(exc, "copy_open", TRUE)
        /\ UNCHANGED <<fsvars, copied>>
  /\ UNCHANGED <<char_case, locale, pos, is_mid_sentence, flushed, accessed,
                 sc_calls>>

\* shutil.copy, the copy loop: bytes of the temporary file, in order, reach
\* the target, at most CopyBufSize of them in one step and possibly fewer;
\* a step that raises leaves in the target the bytes that reached it
\* before, which may end inside a character
CopyChunk ==
  /\ pc = "copying"
  /\ copied < Len(encode(locale, temp))
  /\ \/ \E n \in 1..CopyBufSize :
          /\ copied + n <= Len(encode(locale, temp))
          /\ target' = decode(SubSeq(encode(locale, temp), 1, copied + n))
          /\ copied' = copied + n
          /\ UNCHANGED <<exists, target_perm, pc, temp, temp_exists,
                         temp_open, file_open, faulted, exit_fault, printed,
                         raised, histvars>>
     \/ /\ Unwind("OSError", "copy_write", TRUE)
        /\ UNCHANGED <<fsvars, copied>>
  /\ UNCHANGED <<char_case, locale, pos, is_mid_sentence, flushed, accessed,
                 commits, sc_calls>>

\* shutil.copy, last step: copymode gives the target the permission bits of
\* the temporary file (chmod), which are those it was created with, 0o600
\* less the bits of the process umask
CopyMode ==
  /\ pc = "copying"
  /\ copied = Len(encode(locale, temp))
  /\ \/ /\ target_perm' = "temp_file"
        /\ pc' = "exit_temp"
        /\ UNCHANGED <<temp, temp_exists, temp_open, file_open, faulted,
                       exit_fault, printed, raised, histvars>>
     \/ /\ \E exc \in {"PermissionError", "OSError"} :
             Unwind(exc, "copy_mode", TRUE)
        /\ UNCHANGED target_perm
  /\ UNCHANGED <<exists, target, char_case, locale, pos, is_mid_sentence,
                 flushed, copied, accessed, commits, sc_calls>>

\* shutil.copy has returned: the outer with block is left normally and
\* convert_case returns
ExitTemp ==
  /\ pc = "exit_temp"
  /\ ExitOuter("none", <<>>)
  /\ UNCHANGED <<fsvars, char_case, locale, file_open, pos, is_mid_sentence,
                 flushed, copied, accessed, commits, faulted, sc_calls>>

\* after a conversion that went through, the caller runs convert_case again
\* on the same file with the same mode; is_mid_sentence is a local, so the
\* new call starts with whatever the slot holds until the call assigns it
CallAgain ==
  /\ pc = "returned"
  /\ outcome = "ok"
  /\ Len(results) < MaxCalls
  /\ pc' = "call"
  /\ before' = target
  /\ pos' = 0
  /\ flushed' = FALSE
  /\ copied' = 0
  /\ printed' = <<>>
  /\ raised' = "none"
  /\ accessed' = FALSE
  /\ commits' = 0
  /\ faulted' = "none"
  /\ exit_fault' = "none"
  /\ sc_calls' = <<>>
  /\ UNCHANGED <<fsvars, char_case, locale, temp, temp_exists, temp_open,
                 file_open, results, is_mid_sentence>>

Next ==
  \/ CheckMode
  \/ OpenTemp
  \/ OpenSource
  \/ LoopBody
  \/ Flush
  \/ CloseSource
  \/ CopyOpen
  \/ CopyChunk
  \/ CopyMode
  \/ ExitTemp
  \/ CallAgain

Spec == Init /\ [][Next]_vars

(***************************************************************************)
(* to_sentence_case on its own: any line, either carry-in.                 *)
(***************************************************************************)
InitSentence ==
  /\ exists = FALSE
  /\ target = <<>>
  /\ char_case = <<"s">>
  /\ locale = "UTF-8"
  /\ pc = "idle"
  /\ temp = <<>>
  /\ temp_exists = FALSE
  /\ temp_open = FALSE
  /\ file_open = FALSE
  /\ pos = 0
  /\ is_mid_sentence = FALSE
  /\ flushed = FALSE
  /\ copied = 0
  /\ printed = <<>>
  /\ raised = "none"
  /\ before = <<>>
  /\ results = <<>>
  /\ accessed = FALSE
  /\ commits = 0
  /\ faulted = "none"
  /\ exit_fault = "none"
  /\ target_perm = "original"
  /\ sc_calls = <<>>

SentenceCall ==
  /\ pc = "idle"
  /\ \E txt \in FileLines, continue_sentence \in BOOLEAN :
       LET r == to_sentence_case(txt, continue_sentence)
       IN sc_calls' = <<[txt |-> txt, continue_sentence |-> continue_sentence,
                         out |-> r[1], flag |-> r[2]]>>
  /\ pc' = "called"
  /\ UNCHANGED <<fsvars, char_case, locale, temp, temp_exists, temp_open,
                 file_open, pos, is_mid_sentence, flushed, copied, printed,
                 raised, before, results, accessed, commits, faulted,
                 exit_fault>>

NextSentence == SentenceCall

SpecSentence == InitSentence /\ [][NextSentence]_vars

(***************************************************************************)
(* Properties.                                                             *)
(***************************************************************************)
\* target content when the running call started
Before == before

\* lines the running call iterates over
SourceLines == readlines(Before)

\* the line, whitespace at its end ignored, ends with a period
EndsWithPeriod(txt) ==
  \E j \in DOMAIN txt :
    /\ txt[j] = "."
    /\ \A k \in (j + 1)..Len(txt) : char_is_space(txt[k])

\* the text with whitespace removed at its end only
rstrip(txt) ==
  LET keep == {i \in DOMAIN txt : ~char_is_space(txt[i])}
  IN IF keep = {} THEN <<>>
     ELSE SubSeq(txt, 1, CHOOSE i \in keep : \A j \in keep : j <= i)

\* sentence case over a whole file: the flag starts false and each line's
\* returned flag is the next line's carry-in
RECURSIVE SentencePass(_, _)
SentencePass(lines, flag) ==
  IF lines = <<>> THEN <<>>
  ELSE LET r == to_sentence_case(Head(lines), flag)
       IN r[1] \o SentencePass(Tail(lines), r[2])

\* the complete transformed content of a file
Transformed(content, mode) ==
  CASE mode = <<"u">> -> str_upper(content)
    [] mode = <<"l">> -> str_lower(content)
    [] mode = <<"t">> -> str_title(content)
    [] mode = <<"s">> -> SentencePass(readlines(content), FALSE)
    [] OTHER -> content

RecognizedModes == {<<"u">>, <<"l">>, <<"t">>, <<"s">>}

\* C1: in every state of a call and after it returns, the target holds
\* either its content before the call or the complete transformed content,
\* and after a failed call it holds the content before the call.
C1_TargetIntactOrReplaced ==
  pc # "idle" =>
    /\ target \in {Before, Transformed(Before, char_case)}
    /\ (pc = "returned" /\ outcome # "ok") => target = Before

\* C2: for every mode other than 'u', 'l', 't', 's' the call reports an
\* unsupported mode and returns without opening the scratch or the source
\* file.
C2_InvalidModeNoFileAccess ==
  (pc # "idle" /\ char_case \notin RecognizedModes) =>
    /\ ~accessed
    /\ pc \in {"call", "returned"}
    /\ pc = "returned" => printed = <<"Unsupported char_case option">>

\* C3: every failure of convert_case ends with a printed message and a
\* normal return; no exception leaves convert_case.
C3_EveryFailureReported ==
  pc = "returned" =>
    /\ raised = "none"
    /\ (faulted # "none" \/ char_case \notin RecognizedModes)
         => printed # <<>>

\* C4: in a line of two or more segments only the first segment follows the
\* carry-in (lower-cased when true, capitalized when false); every later
\* segment is capitalized.
C4_LaterSegmentsCapitalized ==
  \A i \in DOMAIN sc_calls :
    LET c == sc_calls[i]
        segments == str_split(c.txt, <<".", " ">>)
        wanted ==
          [k \in DOMAIN segments |->
             IF k = 1 /\ c.continue_sentence THEN str_lower(segments[k])
             ELSE str_capitalize(segments[k])]
    IN Len(segments) >= 2 =>
         c.out = str_strip(str_join(<<".", " ">>, wanted)) \o <<NL>>

\* C5: in a Sentence pass the flag passed in for each line after the first
\* is true exactly when the previous line, trimmed, did not end with a
\* period.
C5_FlagMeansMidSentence ==
  \A i \in DOMAIN sc_calls :
    (pc # "called" /\ i >= 2) =>
      sc_calls[i].continue_sentence = ~EndsWithPeriod(SourceLines[i - 1])

\* C6: in a Sentence pass the flag passed for the first line of every call
\* is false, the flag passed for each later line is the flag returned for
\* the line before it, and the returned flag is true exactly when the line,
\* trimmed, ends with a period (false for a blank line, whatever the
\* carry-in).
C6_FlagCarriedAndComputed ==
  pc # "called" =>
    LET lines == SourceLines
    IN /\ Len(sc_calls) <= Len(lines)
       /\ \A i \in DOMAIN sc_calls :
            /\ sc_calls[i].txt = lines[i]
            /\ sc_calls[i].continue_sentence =
                 (IF i = 1 THEN FALSE ELSE sc_calls[i - 1].flag)
            /\ sc_calls[i].flag = EndsWithPeriod(sc_calls[i].txt)
            /\ str_strip(sc_calls[i].txt) = <<>> => ~sc_calls[i].flag

\* C6 witness: a second call in Sentence mode, after a call whose last line
\* ended with a period, has processed two lines: the first line's carry-in is
\* false again, the second line's carry-in is the first line's returned
\* flag, and a blank line returned false under a true carry-in.
C6_Witness ==
  /\ pc = "loop"
  /\ results = <<"ok">>
  /\ Len(sc_calls) = 2
  /\ EndsWithPeriod(SourceLines[Len(SourceLines)])
  /\ sc_calls[1].flag
  /\ sc_calls[2].continue_sentence
  /\ str_strip(sc_calls[2].txt) = <<>>
  /\ ~sc_calls[2].flag

\* C7: the text returned by to_sentence_case ends with exactly one newline
\* and keeps, apart from case, every character of the line that comes
\* before the line's trailing whitespace, leading whitespace included.
C7_OnlyTrailingWhitespaceRemoved ==
  \A i \in DOMAIN sc_calls :
    LET c == sc_calls[i]
        kept == rstrip(c.txt)
        text == SubSeq(c.out, 1, Len(c.out) - 1)
    IN /\ c.out # <<>>
       /\ c.out[Len(c.out)] = NL
       /\ text = rstrip(text)
       /\ str_lower(text) = str_lower(kept)

\* C8: for Upper, Lower and Title, a second successful run of convert_case
\* with the same mode leaves the content the first successful run left.
C8_Idempotent ==
  LET n == Len(results)
  IN (/\ pc = "returned"
      /\ n >= 2
      /\ results[n - 1] = "ok"
      /\ results[n] = "ok"
      /\ char_case \in method_keys)
       => target = Before

\* C8, the part the code keeps: for Upper and Lower on every content, and
\* for Title when the first run left no character whose lower case holds an
\* uncased character and no such uncased character, a second successful run
\* leaves the content of the first.
C8_IdempotentUpperLowerAsciiTitle ==
  LET n == Len(results)
  IN (/\ pc = "returned"
      /\ n >= 2
      /\ results[n - 1] = "ok"
      /\ results[n] = "ok"
      /\ \/ char_case \in {<<"u">>, <<"l">>}
         \/ /\ char_case = <<"t">>
            /\ \A i \in DOMAIN Before : Before[i] \notin {CapIDot, CombDot})
       => target = Before

\* C9: the commit step is entered at most once per call, and only when
\* every line has been read, transformed and written to scratch, scratch
\* is flushed and the source is closed; when opening or reading the source
\* (or anything before the commit) fails, the commit step is not taken and
\* the target is not written.
C9_CommitOnceAfterFullPass ==
  pc # "idle" =>
    /\ commits <= 1
    /\ (commits >= 1 \/ pc = "copy") =>
         /\ pos = Len(SourceLines)
         /\ flushed
         /\ ~file_open
    /\ pc \in {"copy", "copying", "exit_temp"} =>
         temp = Transformed(Before, char_case)
    /\ (pc \notin {"copy", "copying", "exit_temp"} /\ commits = 0) =>
         target = Before
    /\ faulted \in {"open_temp", "open_src", "read", "transform", "write",
                    "flush", "close_src"}
         => commits = 0 /\ target = Before

\* C9 witness: the copy of a two-line scratch file is under way.
C9_Witness ==
  /\ pc = "copying"
  /\ commits = 1
  /\ Len(SourceLines) = 2
  /\ copied > 0
  /\ copied < Len(encode(locale, temp))

\* C10: when convert_case has ended, on whatever path, the scratch file is
\* closed and removed and the source handle is closed.
C10_ResourcesReleased ==
  pc \in {"returned", "call"} =>
    /\ ~temp_open
    /\ ~temp_exists
    /\ temp = <<>>
    /\ ~file_open

\* C10, the part the code keeps: when convert_case has ended both handles
\* are closed, and the scratch file is on disk exactly when its removal
\* raised, which the call then reported.
C10_ReleasedUnlessRemovalRaised ==
  pc \in {"returned", "call"} =>
    /\ ~temp_open
    /\ ~file_open
    /\ temp_exists <=> exit_fault = "unlink"
    /\ temp_exists => outcome = "reported"
    /\ ~temp_exists => temp = <<>>

====
